---- MODULE Spec2Model ----
(***************************************************************************)
(* State-machine model of auto-backup-py.                                  *)
(*                                                                         *)
(* The repository holds two programs that share nothing but a class name:  *)
(*   - the package  backup/manager.py (+ backup/scheduler.py): one         *)
(*     manifest.json per store, tar.xz archives sealed with Fernet;        *)
(*   - the script   backup.py: one .backup artifact and one .manifest.json *)
(*     per snapshot, the key persisted in <store>/.encryption_key.         *)
(* `program` says which of the two a behaviour runs; the state of the      *)
(* other one stays at its initial value. Spec runs the two managers called *)
(* directly; SchedSpec (program = "scheduler") runs a BackupScheduler of   *)
(* backup/scheduler.py, its worker thread and its controlling thread, over *)
(* a manager of backup/manager.py; RaceSpec (program = "race") takes       *)
(* create_snapshot step by step, so that the worker's cycle and a run_now  *)
(* or cleanup of another thread interleave on one manager.                 *)
(*                                                                         *)
(* File names and the manifest document are sequences of tokens, so that   *)
(* str.replace, str.endswith, `in`, sorted, json.dump and json.load are    *)
(* modelled by what they do to the text.                                   *)
(***************************************************************************)
EXTENDS Naturals, Integers, Sequences, FiniteSets, TLC

\* ------------------------------------------------------------------ bounds
\* Clock seconds the model runs through (one snapshot identifier per second).
MaxTime == 2
\* Retention counts a manager is constructed with: 0..MaxKeep.
MaxKeep == 2
\* Fernet keys: key 1 is the key of an earlier run (it sealed the artifacts
\* the store holds initially), keys 2..MaxKeys are what Fernet.generate_key()
\* returns, each call a new one.
MaxKeys == 2
\* How many stored artifacts something outside the program alters.
MaxTamper == 1
\* How many worker threads one BackupScheduler makes in a behaviour.
MaxThreads == 2

Times == 1..MaxTime
Keys == 1..MaxKeys

\* ------------------------------------------------------------------- state
VARIABLES
    program,          \* "manager" (backup/manager.py), "backup" (backup.py) or
                      \* "scheduler" (backup/scheduler.py over backup/manager.py)
    now,              \* the wall clock, in seconds
    nextKey,          \* the key the next Fernet.generate_key() returns
    source,           \* the source tree: [exists, files]
    files,            \* manager.py: the backup store's files, name -> bytes
    disk_manifest,    \* manager.py: <store>/manifest.json, [exists, text]
    alive,            \* manager.py: a BackupManager object exists
    key,              \* manager.py: self.key
    key_supplied,     \* manager.py: the constructor was given secret_key
    retention_count,  \* manager.py: self.retention_count
    backup_manifest,  \* manager.py: self.backup_manifest, name -> info
    pc,               \* manager.py: where the running call stands
    b_dir,            \* backup.py: the backup directory exists
    b_keyfile,        \* backup.py: <store>/.encryption_key, 0 when missing
    b_store,          \* backup.py: the store's .backup files, name -> bytes
    b_manifests,      \* backup.py: the store's .manifest.json files, name -> manifest
    b_alive,          \* backup.py: a BackupManager object exists
    b_key,            \* backup.py: self.encryption_key
    last,             \* the last call that ended: [op, outcome, ret, val]
    started_empty,    \* manager.py: the store was empty when the behaviour began
    on_backup_complete, \* scheduler.py: self.on_backup_complete, a Callbacks value
    on_error,         \* scheduler.py: self.on_error, a Callbacks value
    stop_event,       \* scheduler.py: self._stop_event.is_set()
    thread,           \* scheduler.py: self._thread, 0 for None
    worker,           \* scheduler.py: where each thread made by start() stands
    ctl,              \* scheduler.py: where the controlling thread stands
    cb,               \* scheduler.py: the callbacks the last ended worker cycle invoked
    last_backup_time, \* scheduler.py: self._last_backup_time, 0 for None
    cs,               \* a create_snapshot call under way in each thread: [at, ts]
    serialized        \* the callers guard create/rotate with one mutex

vars == <<program, now, nextKey, source, files, disk_manifest, alive, key,
          key_supplied, retention_count, backup_manifest, pc, b_dir, b_keyfile,
          b_store, b_manifests, b_alive, b_key, last, started_empty,
          on_backup_complete, on_error, stop_event, thread, worker, ctl, cb,
          last_backup_time, cs, serialized>>

\* ------------------------------------------------------------ text helpers
\* datetime.now().strftime("%Y%m%d_%H%M%S"): fixed width, one string a second.
Stamps == <<"20240101_000001", "20240101_000002", "20240101_000003",
            "20240101_000004", "20240101_000005", "20240101_000006">>

Strftime(t) == Stamps[t]

\* Position of a stamp in lexicographic order (the stamps are fixed width).
StampRank(s) == CHOOSE i \in 1..Len(Stamps) : Stamps[i] = s

\* f"snapshot_{timestamp}.tar.xz"
ArchiveName(timestamp) == <<"snapshot_", timestamp, ".tar.xz">>

\* path + ".enc"
EncName(name) == Append(name, ".enc")

\* str.endswith(suffix)
EndsWith(name, suffix) == Len(name) > 0 /\ name[Len(name)] = suffix

\* str.replace(tok, "")
Replace(name, tok) ==
    LET Keep(x) == x # tok IN SelectSeq(name, Keep)

\* `sub in s` on strings: sub is a contiguous part of s.
Contains(s, sub) ==
    \E i \in 0..(Len(s) - Len(sub)) : SubSeq(s, i + 1, i + Len(sub)) = sub

\* sorted(list of file names): lexicographic; all names compared here are
\* snapshot_<stamp>... so the stamp decides.
RECURSIVE Sorted(_)
Sorted(S) ==
    IF S = {} THEN <<>>
    ELSE LET m == CHOOSE x \in S : \A y \in S : StampRank(x[2]) <= StampRank(y[2])
         IN <<m>> \o Sorted(S \ {m})

\* Python's seq[:-k]: stop index -k, which for k = 0 is index 0.
SliceToMinus(seq, k) ==
    IF k = 0 THEN <<>>
    ELSE IF k >= Len(seq) THEN <<>>
    ELSE SubSeq(seq, 1, Len(seq) - k)

Range(seq) == {seq[i] : i \in 1..Len(seq)}

\* ------------------------------------------------------------------- bytes
\* A tar.xz archive: its members (arcname, content).
TarXz(members) == [fmt |-> "tar.xz", members |-> members]

\* What LZMAFile leaves when tarfile.open fails: an xz stream with no tar in it.
EmptyXz == [kind |-> "xz", key |-> 0, data |-> TarXz({}), intact |-> TRUE]

\* A plaintext archive file in the store.
Plain(data) == [kind |-> "plain", key |-> 0, data |-> data, intact |-> TRUE]

\* Fernet(key).encrypt(data): an authenticated token.
FernetEncrypt(k, data) == [kind |-> "fernet", key |-> k, data |-> data, intact |-> TRUE]

\* Fernet(key).decrypt(token) succeeds iff the token was sealed with this key
\* and its bytes are untouched; otherwise it raises InvalidToken.
FernetValid(k, token) == token.kind = "fernet" /\ token.key = k /\ token.intact

\* hashlib.sha256 over the file's bytes, taken as collision free.
Sha256(bytes) == <<"sha256", bytes>>

\* The files of the spec's scenario.
FileA == [path |-> <<"a.txt">>, content |-> "hello"]
FileB == [path |-> <<"b.log">>, content |-> "skip"]

\* -------------------------------------------------------- manifest document
LBrace == [tok |-> "{", name |-> <<>>, info |-> <<>>]
RBrace == [tok |-> "}", name |-> <<>>, info |-> <<>>]
Entry(name, info) == [tok |-> "entry", name |-> name, info |-> info]

\* json.dump(self.backup_manifest, f): the whole mapping as one document.
JsonDump(m) ==
    LET names == Sorted(DOMAIN m)
    IN <<LBrace>> \o [i \in 1..Len(names) |-> Entry(names[i], m[names[i]])] \o <<RBrace>>

\* A text json.load accepts: an opening brace, entries, a closing brace.
JsonValid(text) ==
    /\ Len(text) >= 2
    /\ text[1].tok = "{"
    /\ text[Len(text)].tok = "}"
    /\ \A i \in 2..(Len(text) - 1) : text[i].tok = "entry"

\* json.load(f) of a valid text.
JsonLoad(text) ==
    LET es == {text[i] : i \in 2..(Len(text) - 1)}
    IN [n \in {e.name : e \in es} |-> (CHOOSE e \in es : e.name = n).info]

NoFile == [exists |-> FALSE, text |-> <<>>]
Doc(text) == [exists |-> TRUE, text |-> text]

EmptyMap == [n \in {} |-> 0]

\* ------------------------------------------------------------ call records
\* What a finished call left to observe: the exception it raised (outcome, "ok"
\* when it returned), the kind of value it returned (ret) and that value (val).
Call(op, outcome, ret, val) ==
    [op |-> op, outcome |-> outcome, ret |-> ret, val |-> val]

NoCall == Call("none", "ok", "none", {})

Raised(op, exc) == Call(op, exc, "none", {})

\* ------------------------------------------------ backup/manager.py: helpers
\* The directory name of source_dir, which _add_to_archive keeps in arcname.
SourceBase == "data"

\* _add_to_archive with no patterns: every file of the tree, named relative to
\* the PARENT of source_dir (os.path.dirname(self.source_dir)).
AddToArchive(src) ==
    {[path |-> <<SourceBase>> \o f.path, content |-> f.content] : f \in src.files}

\* The keywords TarFile.__init__ takes. tarfile.open(name, "w:xz", **kw) is
\* TarFile.xzopen(name, mode, fileobj, preset=None, **kw): it opens
\* LZMAFile(name, "w"), which creates the file, and hands kw on to
\* TarFile.__init__; a keyword that is not one of these raises TypeError.
TarFileKeywords ==
    {"format", "tarinfo", "dereference", "ignore_zeros", "encoding", "errors",
     "pax_headers", "debug", "errorlevel", "copybufsize"}

\* The store after removing the files named in `names`.
Without(fs, names) == [n \in (DOMAIN fs) \ names |-> fs[n]]

\* The store (or manifest) with `name` (over)written.
With(fs, name, v) == [n \in (DOMAIN fs) \cup {name} |-> IF n = name THEN v ELSE fs[n]]

\* _encrypt_file(path): writes path + ".enc" and removes path.
EncryptFile(fs, path, k) ==
    Without(With(fs, EncName(path), FernetEncrypt(k, fs[path].data)), {path})

\* _rotate_backups, line 162: the sorted listing of the store's .enc files.
Backups(fs) == Sorted({f \in DOMAIN fs : EndsWith(f, ".enc")})

\* A guard that also fires when the store holds exactly `keep` artifacts.
RotationRunsAtLimit(fs, keep) == Len(Backups(fs)) >= keep

\* _rotate_backups, line 163: whether the branch that removes the old files
\* and ends in _save_manifest runs.
RotationRuns(fs, keep) == Len(Backups(fs)) > keep

\* _rotate_backups, line 164: the files the loop removes.
OldBackups(fs, keep) ==
    IF RotationRuns(fs, keep) THEN SliceToMinus(Backups(fs), keep) ELSE <<>>

\* _rotate_backups, lines 164-170: the store and the manifest after the loop.
RotatedFiles(fs, keep) == Without(fs, Range(OldBackups(fs, keep)))

RotatedManifest(fs, m, keep) ==
    Without(m, {Replace(old, ".enc") : old \in Range(OldBackups(fs, keep))})

\* verify_backup: the path it hashes.
VerifyPath(backup_file) ==
    IF ~EndsWith(backup_file, ".enc") THEN EncName(backup_file) ELSE backup_file

\* verify_backup, lines 155-158, for a file that exists: the first manifest
\* entry whose name (without ".tar.xz") occurs in the path decides.
VerifyResult(fs, m, backup_file) ==
    LET path == VerifyPath(backup_file)
        current_hash == Sha256(fs[path])
        hits == {name \in DOMAIN m : Contains(path, Replace(name, ".tar.xz"))}
    IN IF hits = {} THEN "false"
       ELSE IF current_hash = m[Sorted(hits)[1]].final_hash THEN "true" ELSE "false"

\* A create_snapshot that puts the entry as soon as it has the archive name.
ManifestPutAtOnce(m, name, info, line) == With(m, name, info)

\* A create_snapshot that puts the entry before it opens the archive.
ManifestPutAtOpen(m, name, info, line) == IF line >= 52 THEN With(m, name, info) ELSE m

\* self.backup_manifest when create_snapshot has come as far as `line`: the
\* entry of the new snapshot is put at line 75, and not before.
ManifestAtLine(m, name, info, line) == IF line >= 75 THEN With(m, name, info) ELSE m

\* decrypt_backup, lines 127-134: what ends up in output_dir.
Restored(token) ==
    {[path |-> <<"restored.tar.xz">>, content |-> "tar.xz bytes"]}
        \cup token.data.members

\* A decrypt_backup that creates output_dir and opens restored.tar.xz before
\* it decrypts.
DecryptBackupOpensFirst(fs, k, backup_file) ==
    IF backup_file \notin DOMAIN fs
    THEN Raised("decrypt_backup", "FileNotFoundError")
    ELSE IF ~FernetValid(k, fs[backup_file])
    THEN Call("decrypt_backup", "InvalidToken", "none",
              {[path |-> <<"restored.tar.xz">>, content |-> ""]})
    ELSE Call("decrypt_backup", "ok", "dir", Restored(fs[backup_file]))

\* decrypt_backup(backup_file, output_dir) into a directory that is empty or
\* does not exist: the exception or the returned directory, and (val) what
\* output_dir holds when the call ends.
DecryptBackup(fs, k, backup_file) ==
    IF backup_file \notin DOMAIN fs
    THEN Raised("decrypt_backup", "FileNotFoundError")
    ELSE IF ~FernetValid(k, fs[backup_file])
    THEN Raised("decrypt_backup", "InvalidToken")
    ELSE Call("decrypt_backup", "ok", "dir", Restored(fs[backup_file]))

\* ------------------------------------------------ backup/manager.py: actions
mgrVars == <<alive, key, key_supplied, retention_count, backup_manifest>>

bVars == <<b_dir, b_keyfile, b_store, b_manifests, b_alive, b_key>>

sVars == <<on_backup_complete, on_error, stop_event, thread, worker, ctl, cb,
           last_backup_time>>

rVars == <<cs, serialized>>

\* BackupManager(source_dir, backup_dir, secret_key, retention_count=keep).
\* secret_key = 0 stands for None. os.makedirs(exist_ok=True) makes a missing
\* store an empty one, which holds no manifest.json.
Construct(secret_key, keep) ==
    /\ program = "manager"
    /\ ~alive
    /\ secret_key = 0 => nextKey <= MaxKeys
    /\ nextKey' = IF secret_key = 0 THEN nextKey + 1 ELSE nextKey
    /\ IF disk_manifest.exists /\ ~JsonValid(disk_manifest.text)
       THEN \* _load_manifest: json.load raises, __init__ does not catch it
            /\ last' = Raised("__init__", "JSONDecodeError")
            /\ UNCHANGED mgrVars
       ELSE /\ alive' = TRUE
            /\ key' = IF secret_key # 0 THEN secret_key ELSE nextKey
            /\ key_supplied' = (secret_key # 0)
            /\ retention_count' = keep
            /\ backup_manifest' =
                 IF disk_manifest.exists THEN JsonLoad(disk_manifest.text) ELSE EmptyMap
            /\ last' = Call("__init__", "ok", "none", {})
    /\ UNCHANGED sVars
    /\ UNCHANGED rVars
    /\ UNCHANGED <<program, started_empty, now, source, files, disk_manifest, pc>>
    /\ UNCHANGED bVars

\* create_snapshot(), lines 45-82, with the default arguments, at second t of
\* the clock: what the call leaves in the store, in self.backup_manifest and
\* in manifest.json, and how it ends (last).
CreateSnapshot(t) ==
    LET timestamp == Strftime(t)
        archive_name == ArchiveName(timestamp)
        written == With(files, archive_name, Plain(TarXz(AddToArchive(source))))
        encrypted == EncryptFile(written, archive_name, key)
        encrypted_path == EncName(archive_name)
        backup_info == [timestamp |-> timestamp,
                        final_hash |-> Sha256(encrypted[encrypted_path])]
        updated == ManifestAtLine(backup_manifest, archive_name, backup_info, 75)
        rotated == RotatedManifest(encrypted, updated, retention_count)
    IN IF "compresslevel" \notin TarFileKeywords
       THEN \* line 52 raises TypeError; LZMAFile has created the file
            [files |-> With(files, archive_name, EmptyXz),
             backup_manifest |->
                 ManifestAtLine(backup_manifest, archive_name, backup_info, 52),
             disk_manifest |-> disk_manifest,
             last |-> Raised("create_snapshot", "TypeError")]
       ELSE IF archive_name \notin DOMAIN encrypted
       THEN \* line 68: os.path.getsize(archive_path) of the file that
            \* _encrypt_file has removed raises FileNotFoundError
            [files |-> encrypted,
             backup_manifest |->
                 ManifestAtLine(backup_manifest, archive_name, backup_info, 68),
             disk_manifest |-> disk_manifest,
             last |-> Raised("create_snapshot", "FileNotFoundError")]
       ELSE \* lines 75-82: manifest entry, save, rotation (and its save)
            [files |-> RotatedFiles(encrypted, retention_count),
             backup_manifest |-> rotated,
             disk_manifest |-> Doc(JsonDump(rotated)),
             last |-> Call("create_snapshot", "ok", "info", {backup_info})]

\* create_snapshot() called on the manager at second t (datetime.now(), which
\* does not run backwards).
create_snapshot(t) ==
    /\ program = "manager"
    /\ alive
    /\ pc = "idle"
    /\ source.exists
    /\ t >= now
    /\ now' = t
    /\ files' = CreateSnapshot(t).files
    /\ backup_manifest' = CreateSnapshot(t).backup_manifest
    /\ disk_manifest' = CreateSnapshot(t).disk_manifest
    /\ last' = CreateSnapshot(t).last
    /\ UNCHANGED sVars
    /\ UNCHANGED rVars
    /\ UNCHANGED <<program, started_empty, nextKey, source, alive, key, key_supplied,
                   retention_count, pc>>
    /\ UNCHANGED bVars

\* verify_backup(backup_file).
verify_backup(backup_file) ==
    /\ program = "manager"
    /\ alive
    /\ pc = "idle"
    /\ IF VerifyPath(backup_file) \notin DOMAIN files
       THEN \* _calculate_hash opens the file: FileNotFoundError, not caught
            last' = Raised("verify_backup", "FileNotFoundError")
       ELSE last' = Call("verify_backup", "ok",
                         VerifyResult(files, backup_manifest, backup_file), {})
    /\ UNCHANGED sVars
    /\ UNCHANGED rVars
    /\ UNCHANGED <<program, started_empty, now, nextKey, source, files, disk_manifest, pc>>
    /\ UNCHANGED bVars
    /\ UNCHANGED mgrVars

\* decrypt_backup(backup_file, output_dir).
decrypt_backup(backup_file) ==
    /\ program = "manager"
    /\ alive
    /\ pc = "idle"
    /\ last' = DecryptBackup(files, key, backup_file)
    /\ UNCHANGED sVars
    /\ UNCHANGED rVars
    /\ UNCHANGED <<program, started_empty, now, nextKey, source, files, disk_manifest, pc>>
    /\ UNCHANGED bVars
    /\ UNCHANGED mgrVars

\* cleanup(): _rotate_backups(self.retention_count) up to its call of
\* _save_manifest; without that call cleanup returns here.
cleanup ==
    /\ program = "manager"
    /\ alive
    /\ pc = "idle"
    /\ files' = RotatedFiles(files, retention_count)
    /\ backup_manifest' = RotatedManifest(files, backup_manifest, retention_count)
    /\ IF RotationRuns(files, retention_count)
       THEN pc' = "save_open" /\ UNCHANGED last
       ELSE pc' = "idle" /\ last' = Call("cleanup", "ok", "none", {})
    /\ UNCHANGED sVars
    /\ UNCHANGED rVars
    /\ UNCHANGED <<program, started_empty, now, nextKey, source, disk_manifest, alive, key,
                   key_supplied, retention_count>>
    /\ UNCHANGED bVars

\* _save_manifest, line 38: open(manifest_path, 'w') truncates the document.
SaveOpen ==
    /\ pc = "save_open"
    /\ disk_manifest' = Doc(<<>>)
    /\ pc' = "save_dump"
    /\ UNCHANGED sVars
    /\ UNCHANGED rVars
    /\ UNCHANGED <<program, started_empty, now, nextKey, source, files, last>>
    /\ UNCHANGED bVars
    /\ UNCHANGED mgrVars

\* _save_manifest, line 39: json.dump, and the close that flushes it; cleanup
\* then returns.
SaveDump ==
    /\ pc = "save_dump"
    /\ disk_manifest' = Doc(JsonDump(backup_manifest))
    /\ pc' = "idle"
    /\ last' = Call("cleanup", "ok", "none", {})
    /\ UNCHANGED sVars
    /\ UNCHANGED rVars
    /\ UNCHANGED <<program, started_empty, now, nextKey, source, files>>
    /\ UNCHANGED bVars
    /\ UNCHANGED mgrVars

\* The process ends (exit, kill, power loss) at any point; the manager object
\* is gone. In the middle of json.dump the document keeps what was flushed:
\* any proper prefix of the text.
Crash ==
    /\ program = "manager"
    /\ alive
    /\ alive' = FALSE
    /\ key' = 0
    /\ key_supplied' = FALSE
    /\ retention_count' = 0
    /\ backup_manifest' = EmptyMap
    /\ pc' = "idle"
    /\ IF pc = "save_dump"
       THEN \E n \in 0..(Len(JsonDump(backup_manifest)) - 1) :
                disk_manifest' = Doc(SubSeq(JsonDump(backup_manifest), 1, n))
       ELSE UNCHANGED disk_manifest
    /\ last' = Raised("process", IF pc = "idle" THEN "exit" ELSE "killed")
    /\ UNCHANGED sVars
    /\ UNCHANGED rVars
    /\ UNCHANGED <<program, started_empty, now, nextKey, source, files>>
    /\ UNCHANGED bVars

\* Something outside the program changes the bytes of a stored artifact.
Tamper(name) ==
    /\ program = "manager"
    /\ pc = "idle"
    /\ name \in DOMAIN files
    /\ files[name].intact
    /\ Cardinality({n \in DOMAIN files : ~files[n].intact}) < MaxTamper
    /\ files' = [files EXCEPT ![name].intact = FALSE]
    /\ UNCHANGED sVars
    /\ UNCHANGED rVars
    /\ UNCHANGED <<program, started_empty, now, nextKey, source, disk_manifest, pc, last>>
    /\ UNCHANGED bVars
    /\ UNCHANGED mgrVars

\* ------------------------------------------------------------- backup.py
\* f"backup_{timestamp}", and the artifact f"{name}.backup".
BackupName(timestamp) == <<"backup_", timestamp>>

BackupFile(name) == Append(name, ".backup")

\* _create_dummy_data: the three sample files.
DummyData ==
    {[path |-> <<"sample1.txt">>, content |-> "Important document content"],
     [path |-> <<"sample2.txt">>, content |-> "Another important file"],
     [path |-> <<"config.json">>, content |-> "{key: value}"]}

\* json.dumps({'metadata': ..., 'files': file_data}) raises TypeError as soon
\* as file_data holds a file: its values are bytes (read_bytes).
JsonSerializable(file_data) == file_data = {}

\* lzma.compress(json.dumps(...).encode()) of a serializable file map.
Packed(file_data) == [fmt |-> "lzma+json", members |-> file_data]

\* BackupManager(source_dir, backup_dir) of backup.py, default config:
\* _init_encryption (lines 41-49), then backup_dir.mkdir (line 29).
B_Construct ==
    /\ program = "backup"
    /\ ~b_alive
    /\ b_keyfile = 0 => nextKey <= MaxKeys
    /\ nextKey' = IF b_keyfile = 0 THEN nextKey + 1 ELSE nextKey
    /\ IF b_keyfile = 0 /\ ~b_dir
       THEN \* key_file.write_bytes in a directory that does not exist
            /\ last' = Raised("b.__init__", "FileNotFoundError")
            /\ UNCHANGED <<b_dir, b_keyfile, b_alive, b_key>>
       ELSE /\ b_key' = IF b_keyfile # 0 THEN b_keyfile ELSE nextKey
            /\ b_keyfile' = b_key'
            /\ b_dir' = TRUE
            /\ b_alive' = TRUE
            /\ last' = Call("b.__init__", "ok", "none", {})
    /\ UNCHANGED sVars
    /\ UNCHANGED rVars
    /\ UNCHANGED <<program, started_empty, now, source, files, disk_manifest, pc, b_store, b_manifests>>
    /\ UNCHANGED mgrVars

\* create_snapshot() of backup.py at second t, no custom_name.
B_create_snapshot(t) ==
    /\ program = "backup"
    /\ b_alive
    /\ t >= now
    /\ now' = t
    /\ source' = IF source.exists THEN source ELSE [exists |-> TRUE, files |-> DummyData]
    /\ LET name == BackupName(Strftime(t))
           file_data == source'.files
           encrypted == FernetEncrypt(b_key, Packed(file_data))
           manifest == [name |-> name, integrity_hash |-> Sha256(encrypted),
                        created_at |-> Strftime(t)]
       IN IF ~JsonSerializable(file_data)
          THEN /\ last' = Raised("b.create_snapshot", "TypeError")
               /\ UNCHANGED <<b_store, b_manifests>>
          ELSE /\ b_store' = With(b_store, BackupFile(name), encrypted)
               /\ b_manifests' = With(b_manifests, name, manifest)
               /\ last' = Call("b.create_snapshot", "ok", "info", {manifest})
    /\ UNCHANGED sVars
    /\ UNCHANGED rVars
    /\ UNCHANGED <<program, started_empty, nextKey, files, disk_manifest, pc, b_dir, b_keyfile,
                   b_alive, b_key>>
    /\ UNCHANGED mgrVars

\* restore_snapshot(snapshot_name, target_dir) into a directory that is empty
\* or does not exist: the exception or the returned directory, and (val) what
\* target_dir holds when the call ends.
RestoreSnapshot(store, k, snapshot_name) ==
    IF BackupFile(snapshot_name) \notin DOMAIN store
    THEN Raised("b.restore_snapshot", "FileNotFoundError")
    ELSE IF ~FernetValid(k, store[BackupFile(snapshot_name)])
    THEN Raised("b.restore_snapshot", "InvalidToken")
    ELSE Call("b.restore_snapshot", "ok", "dir",
              store[BackupFile(snapshot_name)].data.members)

\* restore_snapshot(snapshot_name, target_dir).
B_restore_snapshot(snapshot_name) ==
    /\ program = "backup"
    /\ b_alive
    /\ last' = RestoreSnapshot(b_store, b_key, snapshot_name)
    /\ UNCHANGED sVars
    /\ UNCHANGED rVars
    /\ UNCHANGED <<program, started_empty, now, nextKey, source, files, disk_manifest, pc>>
    /\ UNCHANGED bVars
    /\ UNCHANGED mgrVars

\* The process that holds the manager ends.
B_Exit ==
    /\ program = "backup"
    /\ b_alive
    /\ b_alive' = FALSE
    /\ b_key' = 0
    /\ last' = Raised("process", "exit")
    /\ UNCHANGED sVars
    /\ UNCHANGED rVars
    /\ UNCHANGED <<program, started_empty, now, nextKey, source, files, disk_manifest, pc, b_dir,
                   b_keyfile, b_store, b_manifests>>
    /\ UNCHANGED mgrVars

\* Someone deletes the store's key file.
B_DeleteKeyFile ==
    /\ program = "backup"
    /\ b_keyfile # 0
    /\ b_keyfile' = 0
    /\ UNCHANGED sVars
    /\ UNCHANGED rVars
    /\ UNCHANGED <<program, started_empty, now, nextKey, source, files, disk_manifest, pc, b_dir,
                   b_store, b_manifests, b_alive, b_key, last>>
    /\ UNCHANGED mgrVars

\* ---------------------------------------------------------------- initially
\* The artifact an earlier run with key 1 sealed at second t, and its entry.
Artifact(t) == FernetEncrypt(1, TarXz(AddToArchive([exists |-> TRUE, files |-> {FileA}])))

SnapshotFile(t) == EncName(ArchiveName(Strftime(t)))

InfoOf(t) == [timestamp |-> Strftime(t), final_hash |-> Sha256(Artifact(t))]

\* The backup store is a directory handed to the constructor: what it holds
\* is an input. It holds artifacts of some seconds up to the present one, and
\* a manifest.json that is missing, cut short, or lists some of those seconds
\* (not always the ones that have an artifact).
InitManager ==
    /\ program = "manager"
    /\ now \in Times
    /\ \E arts \in SUBSET (1..now) :
         files = [n \in {SnapshotFile(t) : t \in arts} |-> Artifact(CHOOSE t \in arts : SnapshotFile(t) = n)]
    /\ \/ disk_manifest = NoFile
       \/ disk_manifest = Doc(<<LBrace>>)
       \/ \E ks \in SUBSET (1..now) :
            disk_manifest = Doc(JsonDump([n \in {ArchiveName(Strftime(t)) : t \in ks} |->
                                InfoOf(CHOOSE t \in ks : ArchiveName(Strftime(t)) = n)]))
    /\ source = [exists |-> TRUE, files |-> {FileA, FileB}]
    /\ started_empty = (files = EmptyMap /\ disk_manifest = NoFile)

\* backup.py starts on a backup directory that does not exist yet, or on one
\* that holds no snapshot and may hold the key file of an earlier run (key 1).
InitBackup ==
    /\ program = "backup"
    /\ now = 1
    /\ \/ b_dir = FALSE /\ b_keyfile = 0
       \/ b_dir = TRUE /\ b_keyfile \in {0, 1}
    /\ files = EmptyMap
    /\ disk_manifest = NoFile
    /\ started_empty = TRUE
    /\ source \in {[exists |-> FALSE, files |-> {}],
                   [exists |-> TRUE, files |-> {}],
                   [exists |-> TRUE, files |-> {FileA}]}

\* The threads that call create_snapshot of one manager: the scheduler's
\* worker (_run_loop) and the thread that calls run_now().
Threads == {"worker", "caller"}

\* No create_snapshot call is under way.
NoCalls == [th \in Threads |-> [at |-> "idle", ts |-> 0]]

\* No BackupScheduler has been made.
NoScheduler ==
    /\ cs = NoCalls
    /\ serialized = FALSE
    /\ on_backup_complete = "none"
    /\ on_error = "none"
    /\ stop_event = FALSE
    /\ thread = 0
    /\ worker = <<>>
    /\ ctl = "idle"
    /\ cb = <<>>
    /\ last_backup_time = 0

Init ==
    /\ NoScheduler
    /\ nextKey = 2
    /\ alive = FALSE
    /\ key = 0
    /\ key_supplied = FALSE
    /\ retention_count = 0
    /\ backup_manifest = EmptyMap
    /\ pc = "idle"
    /\ b_store = EmptyMap
    /\ b_manifests = EmptyMap
    /\ b_alive = FALSE
    /\ b_key = 0
    /\ last = NoCall
    /\ \/ InitManager /\ b_dir = FALSE /\ b_keyfile = 0
       \/ InitBackup

SnapshotArgs ==
    {SnapshotFile(t) : t \in Times} \cup {ArchiveName(Strftime(t)) : t \in Times}

Next ==
    \/ \E secret_key \in {0, 1}, keep \in 0..MaxKeep : Construct(secret_key, keep)
    \/ \E t \in Times : create_snapshot(t)
    \/ \E f \in SnapshotArgs : verify_backup(f)
    \/ \E f \in SnapshotArgs : decrypt_backup(f)
    \/ cleanup
    \/ SaveOpen
    \/ SaveDump
    \/ Crash
    \/ \E t \in Times : Tamper(SnapshotFile(t))
    \/ B_Construct
    \/ \E t \in Times : B_create_snapshot(t)
    \/ \E t \in Times : B_restore_snapshot(BackupName(Strftime(t)))
    \/ B_Exit
    \/ B_DeleteKeyFile

Spec == Init /\ [][Next]_vars

\* ------------------------------------------------------ backup/scheduler.py
\* What a callback handed to BackupScheduler does when it is called: nothing
\* is handed over ("none"), it returns, or it raises.
Callbacks == {"none", "returns", "raises"}

\* Thread.is_alive() of a thread at this point of _run_loop: "check" is the
\* loop test of line 72, "cycle" is inside _perform_backup, "wait" is line 81;
\* "done" is a thread that returned, "raised" one that an exception ended.
IsAlive(at) == at \in {"check", "cycle", "wait"}

\* A start() that never finds a worker.
NeverRunning(th, ws) == FALSE

\* start(), line 50: self._thread and self._thread.is_alive().
AlreadyRunning(th, ws) == th # 0 /\ IsAlive(ws[th])

\* interval_hours, the default of BackupScheduler.__init__.
IntervalHours == 24

\* datetime.isoformat() of self._last_backup_time, None when it is None
\* (the empty sequence stands for None).
LastBackup(time) == IF time = 0 THEN <<>> ELSE <<"iso", Strftime(time)>>

\* get_status(), lines 105-110.
GetStatus ==
    [running |-> IF thread # 0 THEN IsAlive(worker[thread]) ELSE FALSE,
     last_backup |-> LastBackup(last_backup_time),
     interval_hours |-> (IntervalHours * 3600) \div 3600,
     pending |-> ~stop_event]

\* A _perform_backup that takes the time before it calls create_snapshot.
StampedBeforeSnapshot(outcome, time, t) == t

\* _perform_backup, lines 88-89: self._last_backup_time once line 88 is
\* through; line 89 runs only when create_snapshot has returned.
LastBackupTimeAfter(outcome, time, t) == IF outcome = "ok" THEN t ELSE time

\* _perform_backup(), lines 87-101, when create_snapshot runs at second t:
\* what the manager is left with, self._last_backup_time, the callbacks
\* invoked (callbacks) and the exception re-raised at line 101 (exc, "none"
\* when it returns).
PerformBackup(t) ==
    LET result == CreateSnapshot(t)
        backup_file == SnapshotFile(t)
        Ends(time, callbacks, exc) ==
            [files |-> result.files,
             backup_manifest |-> result.backup_manifest,
             disk_manifest |-> result.disk_manifest,
             last_backup_time |-> time,
             callbacks |-> callbacks,
             exc |-> exc]
        stamped == LastBackupTimeAfter(result.last.outcome, last_backup_time, t)
    IN IF result.last.outcome # "ok"
       THEN \* line 88 raises
            Ends(stamped, <<>>, result.last.outcome)
       ELSE IF VerifyPath(backup_file) \notin DOMAIN result.files
       THEN \* line 93: verify_backup raises, line 89 has run
            Ends(stamped, <<>>, "FileNotFoundError")
       ELSE IF on_backup_complete = "none"
       THEN Ends(stamped, <<>>, "none")
       ELSE Ends(stamped, <<"on_backup_complete">>,
                 IF on_backup_complete = "raises" THEN "CallbackError" ELSE "none")

\* A _run_loop without the call of on_error.
OnErrorNeverCalled(callbacks, exc) == callbacks

\* _run_loop, lines 75-78: the callbacks a cycle has invoked when the handler
\* of `except Exception` is through.
CycleCallbacks(callbacks, exc) ==
    IF exc # "none" /\ on_error # "none"
    THEN callbacks \o <<"on_error">> ELSE callbacks

\* _run_loop, lines 73-81: where the worker goes after a cycle. The handler
\* catches what _perform_backup raised; what on_error itself raises at line
\* 78 is not caught and ends the thread.
AfterCycle(exc) ==
    IF exc # "none" /\ on_error = "raises" THEN "raised" ELSE "wait"

\* A loop that goes on whatever the event says.
LoopGoesOn(event_set) == "cycle"

\* _run_loop, line 72: while not self._stop_event.is_set().
AfterLoopTest(event_set) == IF event_set THEN "done" ELSE "cycle"

\* The manager a BackupScheduler drives is left alone by its own steps but for
\* what create_snapshot does.
schedFrame ==
    UNCHANGED <<program, started_empty, nextKey, source, alive, key, key_supplied,
                retention_count, pc, on_backup_complete, on_error, cs, serialized>>

\* start(), lines 48-57, called by the controlling thread.
start ==
    /\ program = "scheduler"
    /\ ctl = "idle"
    /\ IF AlreadyRunning(thread, worker)
       THEN \* lines 50-52: warning, return
            UNCHANGED <<stop_event, thread, worker>>
       ELSE /\ Len(worker) < MaxThreads
            /\ stop_event' = FALSE
            /\ worker' = Append(worker, "check")
            /\ thread' = Len(worker')
    /\ last' = Call("start", "ok", "none", {})
    /\ schedFrame
    /\ UNCHANGED <<now, files, disk_manifest, backup_manifest, ctl, cb, last_backup_time>>
    /\ UNCHANGED bVars

\* stop(), lines 61-63: sets the event and, with a thread, joins it.
stop ==
    /\ program = "scheduler"
    /\ ctl = "idle"
    /\ stop_event' = TRUE
    /\ IF thread = 0
       THEN ctl' = "idle" /\ last' = Call("stop", "ok", "none", {})
       ELSE ctl' = "join" /\ UNCHANGED last
    /\ schedFrame
    /\ UNCHANGED <<now, files, disk_manifest, backup_manifest, thread, worker, cb,
                   last_backup_time>>
    /\ UNCHANGED bVars

\* stop(), lines 63-64: join(timeout=5) returns, because the thread has ended
\* or because 5 seconds have passed. A worker at the loop test or in the wait
\* ends at once when the event is set; one inside a backup cycle ends when
\* create_snapshot is through, which may take longer than 5 seconds.
JoinReturns ==
    /\ program = "scheduler"
    /\ ctl = "join"
    /\ ~IsAlive(worker[thread]) \/ worker[thread] = "cycle"
    /\ ctl' = "idle"
    /\ last' = Call("stop", "ok", "none", {})
    /\ schedFrame
    /\ UNCHANGED <<now, files, disk_manifest, backup_manifest, stop_event, thread,
                   worker, cb, last_backup_time>>
    /\ UNCHANGED bVars

\* run_now(), lines 66-68: _perform_backup in the calling thread, at second t.
run_now(t) ==
    /\ program = "scheduler"
    /\ ctl = "idle"
    /\ t >= now
    /\ now' = t
    /\ files' = PerformBackup(t).files
    /\ backup_manifest' = PerformBackup(t).backup_manifest
    /\ disk_manifest' = PerformBackup(t).disk_manifest
    /\ last_backup_time' = PerformBackup(t).last_backup_time
    /\ last' = IF PerformBackup(t).exc # "none"
               THEN Raised("run_now", PerformBackup(t).exc)
               ELSE Call("run_now", "ok", "none", {})
    /\ schedFrame
    /\ UNCHANGED <<stop_event, thread, worker, ctl, cb>>
    /\ UNCHANGED bVars

\* get_status(), lines 103-110.
get_status ==
    /\ program = "scheduler"
    /\ ctl = "idle"
    /\ last' = Call("get_status", "ok", "status", {GetStatus})
    /\ schedFrame
    /\ UNCHANGED <<now, files, disk_manifest, backup_manifest, stop_event, thread,
                   worker, ctl, cb, last_backup_time>>
    /\ UNCHANGED bVars

\* _run_loop, line 72, in worker w: the loop test. With the event set the
\* thread returns; otherwise it enters _perform_backup.
LoopTest(w) ==
    /\ program = "scheduler"
    /\ worker[w] = "check"
    /\ worker' = [worker EXCEPT ![w] = AfterLoopTest(stop_event)]
    /\ cb' = IF worker'[w] = "cycle" THEN <<>> ELSE cb
    /\ schedFrame
    /\ UNCHANGED <<now, files, disk_manifest, backup_manifest, stop_event, thread,
                   ctl, last_backup_time, last>>
    /\ UNCHANGED bVars

\* _run_loop, lines 73-78, in worker w: the cycle's create_snapshot runs at
\* second t and _perform_backup ends; the handler calls on_error.
CycleEnds(w, t) ==
    /\ program = "scheduler"
    /\ worker[w] = "cycle"
    /\ t >= now
    /\ now' = t
    /\ files' = PerformBackup(t).files
    /\ backup_manifest' = PerformBackup(t).backup_manifest
    /\ disk_manifest' = PerformBackup(t).disk_manifest
    /\ last_backup_time' = PerformBackup(t).last_backup_time
    /\ cb' = CycleCallbacks(PerformBackup(t).callbacks, PerformBackup(t).exc)
    /\ worker' = [worker EXCEPT ![w] = AfterCycle(PerformBackup(t).exc)]
    /\ schedFrame
    /\ UNCHANGED <<stop_event, thread, ctl, last>>
    /\ UNCHANGED bVars

\* _run_loop, line 81, in worker w: self._stop_event.wait(timeout) returns,
\* the event being set or the interval over.
WaitReturns(w) ==
    /\ program = "scheduler"
    /\ worker[w] = "wait"
    /\ worker' = [worker EXCEPT ![w] = "check"]
    /\ schedFrame
    /\ UNCHANGED <<now, files, disk_manifest, backup_manifest, stop_event, thread,
                   ctl, cb, last_backup_time, last>>
    /\ UNCHANGED bVars

\* A BackupScheduler made over a manager that was constructed, with a key, on
\* an empty store; the callbacks are what the caller hands over.
SchedInit ==
    /\ program = "scheduler"
    /\ now = 1
    /\ nextKey = 2
    /\ source = [exists |-> TRUE, files |-> {FileA, FileB}]
    /\ files = EmptyMap
    /\ disk_manifest = NoFile
    /\ started_empty = TRUE
    /\ alive = TRUE
    /\ key = 1
    /\ key_supplied = TRUE
    /\ retention_count = 1
    /\ backup_manifest = EmptyMap
    /\ pc = "idle"
    /\ b_dir = FALSE
    /\ b_keyfile = 0
    /\ b_store = EmptyMap
    /\ b_manifests = EmptyMap
    /\ b_alive = FALSE
    /\ b_key = 0
    /\ last = NoCall
    /\ on_backup_complete \in Callbacks
    /\ on_error \in Callbacks
    /\ stop_event = FALSE
    /\ thread = 0
    /\ worker = <<>>
    /\ ctl = "idle"
    /\ cb = <<>>
    /\ last_backup_time = 0
    /\ cs = NoCalls
    /\ serialized = FALSE

SchedNext ==
    \/ start
    \/ stop
    \/ JoinReturns
    \/ \E t \in Times : run_now(t)
    \/ get_status
    \/ \E w \in DOMAIN worker : LoopTest(w)
    \/ \E w \in DOMAIN worker, t \in Times : CycleEnds(w, t)
    \/ \E w \in DOMAIN worker : WaitReturns(w)

\* The operating system runs a thread that can run, a wait with a timeout
\* returns, and create_snapshot (which always raises at once) ends; the
\* controlling thread is free to call nothing more.
WorkerRuns ==
    /\ WF_vars(\E w \in DOMAIN worker : LoopTest(w))
    /\ WF_vars(\E w \in DOMAIN worker, t \in Times : CycleEnds(w, t))
    /\ WF_vars(\E w \in DOMAIN worker : WaitReturns(w))
    /\ WF_vars(JoinReturns)

SchedSpec == SchedInit /\ [][SchedNext]_vars /\ WorkerRuns

\* ------------------------------------- create_snapshot, step by step, racing
\* What open(archive_path, "wb") inside LZMAFile leaves at line 52 until the
\* stream is closed: the file, created or truncated, with nothing in it.
Truncated == [kind |-> "empty", key |-> 0, data |-> TarXz({}), intact |-> TRUE]

\* Callers that take no mutex.
EntersAnyway(th) == TRUE

\* The discipline the callers of one manager may follow: one mutex around
\* every create_snapshot and cleanup call. A thread enters its call only when
\* no other thread is inside one.
MayEnter(th) == serialized => \A o \in Threads \ {th} : cs[o].at = "idle"

raceFrame ==
    UNCHANGED <<program, started_empty, nextKey, source, alive, key, key_supplied,
                retention_count, pc, on_backup_complete, on_error, stop_event,
                thread, ctl, serialized>>

\* create_snapshot, lines 45-47, in thread th at second t: the timestamp is
\* taken and the archive is named. The worker comes here from its wait
\* (_run_loop lines 72-74), the caller through run_now (line 68).
SnapshotBegins(th, t) ==
    /\ program = "race"
    /\ cs[th].at = "idle"
    /\ MayEnter(th)
    /\ t >= now
    /\ now' = t
    /\ cs' = [cs EXCEPT ![th] = [at |-> "named", ts |-> t]]
    /\ worker' = IF th = "worker" THEN [worker EXCEPT ![thread] = "cycle"] ELSE worker
    /\ raceFrame
    /\ UNCHANGED <<files, disk_manifest, backup_manifest, cb, last_backup_time, last>>
    /\ UNCHANGED bVars

\* create_snapshot, line 52, in thread th: tarfile.open creates the archive
\* file, or truncates the one of that name.
ArchiveOpens(th) ==
    /\ program = "race"
    /\ cs[th].at = "named"
    /\ files' = With(files, ArchiveName(Strftime(cs[th].ts)), Truncated)
    /\ cs' = [cs EXCEPT ![th].at = "opened"]
    /\ raceFrame
    /\ UNCHANGED <<now, disk_manifest, backup_manifest, worker, cb, last_backup_time, last>>
    /\ UNCHANGED bVars

\* The rest of the call in thread th: create_snapshot from line 52 on (the
\* stream is closed, the call raises or goes on to its end), then what
\* _perform_backup and its caller do with the result: _run_loop lines 75-78
\* in the worker, run_now in the caller.
SnapshotEnds(th) ==
    /\ program = "race"
    /\ cs[th].at = "opened"
    /\ files' = PerformBackup(cs[th].ts).files
    /\ backup_manifest' = PerformBackup(cs[th].ts).backup_manifest
    /\ disk_manifest' = PerformBackup(cs[th].ts).disk_manifest
    /\ last_backup_time' = PerformBackup(cs[th].ts).last_backup_time
    /\ cs' = [cs EXCEPT ![th] = [at |-> "idle", ts |-> 0]]
    /\ IF th = "worker"
       THEN /\ cb' = CycleCallbacks(PerformBackup(cs[th].ts).callbacks,
                                    PerformBackup(cs[th].ts).exc)
            /\ worker' = [worker EXCEPT ![thread] = AfterCycle(PerformBackup(cs[th].ts).exc)]
            /\ UNCHANGED last
       ELSE /\ last' = IF PerformBackup(cs[th].ts).exc # "none"
                       THEN Raised("run_now", PerformBackup(cs[th].ts).exc)
                       ELSE Call("run_now", "ok", "none", {})
            /\ UNCHANGED <<cb, worker>>
    /\ raceFrame
    /\ UNCHANGED now
    /\ UNCHANGED bVars

\* cleanup() called by the caller thread: _rotate_backups with its save.
RaceCleanup ==
    /\ program = "race"
    /\ cs["caller"].at = "idle"
    /\ MayEnter("caller")
    /\ files' = RotatedFiles(files, retention_count)
    /\ backup_manifest' = RotatedManifest(files, backup_manifest, retention_count)
    /\ disk_manifest' = IF RotationRuns(files, retention_count)
                        THEN Doc(JsonDump(backup_manifest')) ELSE disk_manifest
    /\ last' = Call("cleanup", "ok", "none", {})
    /\ raceFrame
    /\ UNCHANGED <<now, worker, cb, last_backup_time, cs>>
    /\ UNCHANGED bVars

\* A started BackupScheduler whose worker is in its wait, over a manager
\* (retention count 1) whose store holds the snapshots of the seconds up to
\* now; the callers use a mutex or do not.
RaceInit ==
    /\ program = "race"
    /\ now \in Times
    /\ nextKey = 2
    /\ source = [exists |-> TRUE, files |-> {FileA, FileB}]
    /\ files = [n \in {SnapshotFile(t) : t \in 1..now} |->
                   Artifact(CHOOSE t \in 1..now : SnapshotFile(t) = n)]
    /\ backup_manifest = [n \in {ArchiveName(Strftime(t)) : t \in 1..now} |->
                             InfoOf(CHOOSE t \in 1..now : ArchiveName(Strftime(t)) = n)]
    /\ disk_manifest = Doc(JsonDump(backup_manifest))
    /\ started_empty = FALSE
    /\ alive = TRUE
    /\ key = 1
    /\ key_supplied = TRUE
    /\ retention_count = 1
    /\ pc = "idle"
    /\ b_dir = FALSE
    /\ b_keyfile = 0
    /\ b_store = EmptyMap
    /\ b_manifests = EmptyMap
    /\ b_alive = FALSE
    /\ b_key = 0
    /\ last = NoCall
    /\ on_backup_complete = "returns"
    /\ on_error = "returns"
    /\ stop_event = FALSE
    /\ thread = 1
    /\ worker = <<"wait">>
    /\ ctl = "idle"
    /\ cb = <<>>
    /\ last_backup_time = 0
    /\ cs = NoCalls
    /\ serialized \in BOOLEAN

RaceNext ==
    \/ \E th \in Threads, t \in Times : SnapshotBegins(th, t)
    \/ \E th \in Threads : ArchiveOpens(th)
    \/ \E th \in Threads : SnapshotEnds(th)
    \/ RaceCleanup

RaceSpec == RaceInit /\ [][RaceNext]_vars

\* ------------------------------------------------------------------ claims
\* The sealed artifacts of the store, and the seconds they were created at.
EncFiles(fs) == {f \in DOMAIN fs : EndsWith(f, ".enc")}

\* The n most recently created of the artifacts in fs: those with fewer than
\* n artifacts created after them.
Newest(fs, n) ==
    {f \in EncFiles(fs) :
        Cardinality({g \in EncFiles(fs) : StampRank(g[2]) > StampRank(f[2])}) < n}

\* Every artifact has its manifest entry and every entry its artifact.
Consistent(fs, m) == {Replace(f, ".enc") : f \in EncFiles(fs)} = DOMAIN m

\* C1: a create_snapshot call on a readable source tree, a writable store and
\* a working cipher does not raise: it returns the metadata record, and the
\* manifest it saved is the one on disk.
C1_CreateSnapshotReturns ==
    last.op = "create_snapshot" =>
        /\ last.outcome = "ok"
        /\ last.ret = "info"
        /\ disk_manifest = Doc(JsonDump(backup_manifest))

\* C2: restoring, with the same manager, the artifact that the create_snapshot
\* call just made (second t) into an empty directory succeeds and leaves there
\* exactly the files of the source tree: same relative paths, same content.
C2_RestoreReproducesSource ==
    [][\A t \in Times :
         (last.op = "create_snapshot" /\ now = t /\ decrypt_backup(SnapshotFile(t)))
            => (last'.outcome = "ok" /\ last'.val = source.files)]_vars

\* C3: verify_backup on the artifact of the create_snapshot call that just
\* ended returns true; on an artifact whose bytes were changed after its
\* manifest entry was written it returns false.
C3_VerifyTracksArtifact ==
    [][\A t \in Times :
         /\ (last.op = "create_snapshot" /\ now = t /\ verify_backup(SnapshotFile(t)))
               => (last'.outcome = "ok" /\ last'.ret = "true")
         /\ (/\ verify_backup(SnapshotFile(t))
             /\ SnapshotFile(t) \in DOMAIN files
             /\ ~files[SnapshotFile(t)].intact
             /\ ArchiveName(Strftime(t)) \in DOMAIN backup_manifest)
               => (last'.outcome = "ok" /\ last'.ret = "false")]_vars

\* C4: verify_backup never raises, and it returns false when the artifact file
\* is missing, when its hash differs from the recorded final_hash and when
\* the manifest has no entry for it.
C4_VerifyNeverRaises ==
    [][\A t \in Times :
         verify_backup(SnapshotFile(t)) =>
            /\ last'.outcome = "ok"
            /\ (\/ SnapshotFile(t) \notin DOMAIN files
                \/ ArchiveName(Strftime(t)) \notin DOMAIN backup_manifest
                \/ Sha256(files[SnapshotFile(t)])
                     # backup_manifest[ArchiveName(Strftime(t))].final_hash)
                  => last'.ret = "false"]_vars

\* C5: rotation of a store that holds M > N snapshots (every artifact with its
\* manifest entry) leaves exactly the N most recently created, as artifact
\* files and as manifest entries, for every retention count N >= 0.
C5_RotationKeepsNewest ==
    [][(/\ cleanup
        /\ Consistent(files, backup_manifest)
        /\ Cardinality(EncFiles(files)) > retention_count)
          => /\ EncFiles(files') = Newest(files, retention_count)
             /\ Cardinality(EncFiles(files')) = retention_count
             /\ Consistent(files', backup_manifest')]_vars

\* C6: rotation of a store that holds M <= N artifacts is a no-op: the call
\* removes no artifact file and no manifest entry, returns without raising
\* and without a save, so the persisted manifest document is not written.
C6_RotationNoop ==
    [][(cleanup /\ Cardinality(EncFiles(files)) <= retention_count)
          => /\ files' = files
             /\ backup_manifest' = backup_manifest
             /\ disk_manifest' = disk_manifest
             /\ pc' = "idle"
             /\ last' = Call("cleanup", "ok", "none", {})]_vars

\* A cleanup has returned on a store holding fewer artifacts than the
\* retention count (rotation never leaves fewer than it found unless M <= N).
C6_Witness ==
    /\ alive
    /\ pc = "idle"
    /\ last = Call("cleanup", "ok", "none", {})
    /\ Cardinality(EncFiles(files)) >= 1
    /\ Cardinality(EncFiles(files)) < retention_count

\* C7: restore raises and leaves the target directory without any file when
\* the artifact is not in the store (FileNotFoundError) and when the
\* manager's key is not the key that sealed it (InvalidToken); decrypt_backup
\* of backup/manager.py and restore_snapshot of backup.py alike.
C7_RestoreFailsCleanly ==
    [][/\ \A f \in SnapshotArgs :
            decrypt_backup(f) =>
               /\ f \notin DOMAIN files
                    => (last'.outcome = "FileNotFoundError" /\ last'.val = {})
               /\ (f \in DOMAIN files /\ files[f].key # key)
                    => (last'.outcome = "InvalidToken" /\ last'.val = {})
       /\ \A t \in Times :
            B_restore_snapshot(BackupName(Strftime(t))) =>
               LET f == BackupFile(BackupName(Strftime(t)))
               IN /\ f \notin DOMAIN b_store
                       => (last'.outcome = "FileNotFoundError" /\ last'.val = {})
                  /\ (f \in DOMAIN b_store /\ b_store[f].key # b_key)
                       => (last'.outcome = "InvalidToken" /\ last'.val = {})]_vars

\* decrypt_backup has just raised InvalidToken in a store whose artifacts are
\* all untouched and all sealed with a key that is not the manager's.
C7_Witness ==
    /\ alive
    /\ last = Raised("decrypt_backup", "InvalidToken")
    /\ DOMAIN files = EncFiles(files)
    /\ files # EmptyMap
    /\ \A f \in DOMAIN files : files[f].intact /\ files[f].key # key

\* C8: a manager constructed without a supplied key holds the key of its
\* store, so it opens every untouched artifact sealed there earlier; and the
\* construction succeeds also on a backup directory that does not exist yet.
C8_StoreKeyReused ==
    /\ (program = "manager" /\ alive /\ ~key_supplied)
          => \A f \in EncFiles(files) : files[f].intact => FernetValid(key, files[f])
    /\ (program = "backup" /\ last.op = "b.__init__") => last.outcome = "ok"

\* C9: constructing a BackupManager on a store whose manifest document is
\* absent or corrupt succeeds, with an empty manifest.
C9_LoadToleratesBadManifest ==
    [][\A secret_key \in {0, 1}, keep \in 0..MaxKeep :
         (/\ Construct(secret_key, keep)
          /\ (~disk_manifest.exists \/ ~JsonValid(disk_manifest.text)))
            => (last'.outcome = "ok" /\ alive' /\ backup_manifest' = EmptyMap)]_vars

\* C10: while a manifest save is in progress, and after a crash in the middle
\* of it, the manifest document on disk is a complete document.
C10_ManifestNeverPartial ==
    (pc # "idle" \/ last = Raised("process", "killed"))
        => (disk_manifest.exists => JsonValid(disk_manifest.text))

\* C11: a create_snapshot call that raises leaves the manifest as it was
\* before the call, in memory and on disk: no entry added, changed or removed.
C11_FailedCycleLeavesManifest ==
    [][\A t \in Times :
         (create_snapshot(t) /\ last'.outcome # "ok")
            => /\ backup_manifest' = backup_manifest
               /\ disk_manifest' = disk_manifest]_vars

\* create_snapshot has raised in a manager whose manifest, loaded from the
\* store, has an entry.
C11_Witness ==
    /\ program = "manager"
    /\ alive
    /\ last.op = "create_snapshot"
    /\ last.outcome # "ok"
    /\ backup_manifest # EmptyMap
    /\ disk_manifest = Doc(JsonDump(backup_manifest))

\* C12: once stop() has returned (and until a start() makes a new worker) no
\* worker cycle that ends invokes on_backup_complete or on_error.
C12_NoCallbackAfterStop ==
    [][(/\ stop_event
        /\ ctl = "idle"
        /\ \E w \in DOMAIN worker, t \in Times : CycleEnds(w, t))
          => cb' = <<>>]_vars

\* C13: a worker cycle that fails does not end the worker: on_error (when one
\* was handed over) is invoked once, and the worker goes on to the interval
\* wait, from where it starts another cycle unless stop has been signalled.
C13_FailureStaysInWorker ==
    [][\A w \in DOMAIN worker, t \in Times :
         (CycleEnds(w, t) /\ PerformBackup(t).exc # "none")
            => /\ worker'[w] = "wait"
               /\ on_error # "none"
                    => Len(SelectSeq(cb', LAMBDA c : c = "on_error")) = 1]_vars

\* C14: with both callbacks handed over, every worker cycle that ends has
\* invoked exactly one callback: on_backup_complete when the cycle's
\* create_snapshot returned, on_error when it raised.
C14_OneCallbackPerCycle ==
    [][\A w \in DOMAIN worker, t \in Times :
         (CycleEnds(w, t) /\ on_backup_complete # "none" /\ on_error # "none")
            => cb' = IF CreateSnapshot(t).last.outcome = "ok"
                     THEN <<"on_backup_complete">>
                     ELSE <<"on_error">>]_vars

\* A worker cycle has ended and its worker waits for the next one, both
\* callbacks handed over, on_error the one invoked.
C14_Witness ==
    /\ program = "scheduler"
    /\ on_backup_complete # "none"
    /\ on_error # "none"
    /\ thread # 0
    /\ worker[thread] = "wait"
    /\ cb = <<"on_error">>

\* C15: start() with the worker alive changes nothing (no thread made, the
\* event left as it is, no exception), and at most one worker thread of the
\* scheduler is alive at any time.
C15_StartIsNoopWhileAlive ==
    /\ [][(start /\ thread # 0 /\ IsAlive(worker[thread]))
            => /\ worker' = worker
               /\ thread' = thread
               /\ stop_event' = stop_event
               /\ last' = Call("start", "ok", "none", {})]_vars
    /\ [](Cardinality({w \in DOMAIN worker : IsAlive(worker[w])}) <= 1)

\* start() has returned with the event still set and the worker alive: it was
\* called after a stop() whose join gave up, and did nothing.
C15_Witness ==
    /\ program = "scheduler"
    /\ last = Call("start", "ok", "none", {})
    /\ stop_event
    /\ thread # 0
    /\ IsAlive(worker[thread])

\* C16: start() called when the scheduler is not Running (no worker alive, or
\* a worker alive with cancellation requested) leaves it Running: a worker
\* alive and the event clear.
C16_StartLeavesRunning ==
    [][(start /\ ~(AlreadyRunning(thread, worker) /\ ~stop_event))
          => (AlreadyRunning(thread', worker') /\ ~stop_event')]_vars

\* The keys of the manifest document on disk (none when it cannot be loaded).
DiskKeys ==
    IF disk_manifest.exists /\ JsonValid(disk_manifest.text)
    THEN DOMAIN JsonLoad(disk_manifest.text) ELSE {}

\* C17: in a behaviour that began on an empty backup store, after every
\* create_snapshot or cleanup call that has ended (returned or raised) every
\* key of the manifest, in memory and on disk, has its artifact file in the
\* store.
C17_ManifestKeysHaveArtifacts ==
    (/\ program = "manager"
     /\ started_empty
     /\ pc = "idle"
     /\ last.op \in {"create_snapshot", "cleanup"})
        => \A n \in (DOMAIN backup_manifest) \cup DiskKeys : EncName(n) \in DOMAIN files

\* On a store that was empty a create_snapshot call has ended and left
\* something in the store.
C17_Witness ==
    /\ program = "manager"
    /\ started_empty
    /\ alive
    /\ pc = "idle"
    /\ last.op = "create_snapshot"
    /\ files # EmptyMap

\* The n most recent entries of manifest m.
NewestKeys(m, n) ==
    {k \in DOMAIN m :
        Cardinality({g \in DOMAIN m : StampRank(g[2]) > StampRank(k[2])}) < n}

\* C18: rotation with retention count N >= 1 of a manifest that has more
\* than N entries leaves only entries among its N most recent, and no entry
\* whose artifact file is not in the store, also when an expired entry's
\* artifact was missing already.
C18_RotationDropsGhosts ==
    [][(/\ cleanup
        /\ retention_count >= 1
        /\ Cardinality(DOMAIN backup_manifest) > retention_count)
          => /\ DOMAIN backup_manifest' \subseteq NewestKeys(backup_manifest, retention_count)
             /\ \A n \in DOMAIN backup_manifest' : EncName(n) \in DOMAIN files']_vars

\* C19: stop() does not cut a cycle short (a worker inside a cycle leaves it
\* only by the cycle's end), no worker starts a cycle while the event is
\* set, and a worker that is alive with the event set eventually is not.
C19_CancelOnlyBetweenCycles ==
    /\ [][\A w \in DOMAIN worker :
            /\ (worker[w] = "cycle" /\ worker'[w] # "cycle")
                  => (worker'[w] \in {"wait", "raised"}
                        /\ \E t \in Times : CycleEnds(w, t))
            /\ (stop_event /\ worker[w] # "cycle") => worker'[w] # "cycle"]_vars
    /\ \A w \in 1..MaxThreads :
          (w \in DOMAIN worker /\ stop_event /\ IsAlive(worker[w]))
             ~> (w \in DOMAIN worker /\ ~IsAlive(worker[w]))

\* stop() has returned with the worker still alive, so its join gave up on a
\* worker inside a cycle; that cycle has run to its end since (on_error was
\* invoked) and the worker is in the wait, the event set.
C19_Witness ==
    /\ program = "scheduler"
    /\ stop_event
    /\ ctl = "idle"
    /\ last = Call("stop", "ok", "none", {})
    /\ thread # 0
    /\ worker[thread] = "wait"
    /\ cb = <<"on_error">>

\* C20: get_status().last_backup is None as long as no cycle has succeeded,
\* and a step changes it only if it is a cycle, of the worker or of run_now,
\* whose create_snapshot returned; a worker cycle reported through on_error
\* and a run_now that raises leave it as it was.
C20_LastBackupOnlyOnSuccess ==
    [][/\ GetStatus.last_backup' # GetStatus.last_backup
           => \E t \in Times :
                 /\ CreateSnapshot(t).last.outcome = "ok"
                 /\ \/ run_now(t)
                    \/ \E w \in DOMAIN worker : CycleEnds(w, t)
       /\ \A t \in Times :
             /\ (run_now(t) /\ last'.outcome # "ok")
                   => GetStatus.last_backup' = GetStatus.last_backup
             /\ \A w \in DOMAIN worker :
                   (CycleEnds(w, t) /\ cb' # <<"on_backup_complete">>)
                      => GetStatus.last_backup' = GetStatus.last_backup
       /\ last_backup_time = 0 => GetStatus.last_backup = <<>>]_vars

\* run_now has raised after a worker cycle that on_error reported, and
\* get_status() would report None.
C20_Witness ==
    /\ program = "scheduler"
    /\ last = Raised("run_now", "TypeError")
    /\ cb = <<"on_error">>
    /\ GetStatus.last_backup = <<>>

\* C22: in a behaviour that began on an empty store every create_snapshot
\* call takes an identifier that is new: no file of the store and no manifest
\* entry carries its archive name yet, so the call overwrites nothing that an
\* earlier call made, also when both calls fall into one second of the clock.
C22_IdentifierIsNew ==
    [][\A t \in Times :
         (started_empty /\ create_snapshot(t))
            => /\ ArchiveName(Strftime(t)) \notin DOMAIN files
               /\ SnapshotFile(t) \notin DOMAIN files
               /\ ArchiveName(Strftime(t)) \notin DOMAIN backup_manifest]_vars

\* Two calls have the archive file of one name open for writing at once.
TwoWriters ==
    \E a \in Threads, b \in Threads :
        /\ a # b
        /\ cs[a].at = "opened"
        /\ cs[b].at = "opened"
        /\ cs[a].ts = cs[b].ts

\* A call has raised because a file it went for was not there.
RaisedOnMissingFile == last.outcome = "FileNotFoundError"

\* C21: with the calls of the worker's cycle, run_now and cleanup serialized
\* by one mutex, no state has two calls writing the archive file of one name
\* at once, nor a call that raised over a file another call took away;
\* without the mutex such a state is reachable (C21_Witness).
C21_SerializedCallsDoNotRace ==
    (program = "race" /\ serialized) => ~(TwoWriters \/ RaisedOnMissingFile)

\* Without a mutex the worker's cycle and a run_now of the same second have
\* both opened the same archive file.
C21_Witness ==
    /\ program = "race"
    /\ ~serialized
    /\ TwoWriters
    /\ cs["worker"].ts = cs["caller"].ts
    /\ files[ArchiveName(Strftime(cs["worker"].ts))] = Truncated

====
